---- MODULE Spec2Model ----
(***************************************************************************)
(* topen: open the note file of a taskwarrior task in an editor and mark   *)
(* the task with an annotation (src/topen.py).                             *)
(*                                                                         *)
(* Python strings are sequences of characters.  A run of ordinary          *)
(* characters (no "$", "/", "~", no lone ".") may be written as a single   *)
(* element, e.g. <<"~", "/", ".task">> for "~/.task"; only the elements    *)
(* listed in WordChars count as \w characters of a variable name.          *)
(***************************************************************************)
EXTENDS Integers, Sequences, FiniteSets, TLC

VARIABLES
    \* ---- one run of main() ----
    pc,          \* position of main()
    argv,        \* argparse namespace p: option -> value (None when not given)
    environ,     \* os.environ restricted to the variables parse_env reads
    shellenv,    \* os.environ restricted to the variables paths refer to
    home,        \* os.environ["HOME"]
    fs,          \* config files on disk: path -> options written in the file
    opened,      \* the paths handed to open()
    opts_override, conf_file, opts, cfg,   \* locals of main()
    IS_QUIET,    \* module global
    task,        \* local of main(): uuid of the task found, <<>> before
    store,       \* the taskwarrior data: uuid -> [id, annotations]
    store0,      \* the taskwarrior data when main() started
    fname,       \* local of main(): the note file
    proc,        \* the editor subprocess: its state and return code
    touched,     \* note files the editor was started on
    stdout, stderr, exit_status,
    hist,        \* the order in which main() reached its collaborators
    \* ---- _real_path as a library function ----
    ppc, px, pr1, pr2,
    \* ---- add_annotation_if_missing as a library function ----
    acalls, annots0, annots, aprev, atext

mainvars == <<pc, argv, environ, shellenv, home, fs, opened, opts_override,
              conf_file, opts, cfg, IS_QUIET, task, store, store0, fname, proc,
              touched, stdout, stderr, exit_status, hist>>
pathvars == <<ppc, px, pr1, pr2>>
annotvars == <<acalls, annots0, annots, aprev, atext>>
vars == <<mainvars, pathvars, annotvars>>

(***************************************************************************)
(* Bounds of the model.                                                    *)
(***************************************************************************)
\* longest path string handed to _real_path in SpecPath
MaxLen == 3
\* most annotations a task starts with, and most calls made, in SpecAnnot
MaxAnnots == 2
MaxCalls == 3

(***************************************************************************)
(* Python values.                                                          *)
(***************************************************************************)
None == [type |-> "NoneType"]
Str(s) == [type |-> "str", s |-> s]
Bool(b) == [type |-> "bool", b |-> b]
PosixPath(s) == [type |-> "Path", s |-> s]

\* bool(v): None, "" and False are falsy
Truthy(v) ==
    CASE v.type = "NoneType" -> FALSE
      [] v.type = "str" -> v.s /= <<>>
      [] v.type = "bool" -> v.b
      [] OTHER -> TRUE

\* a | b on dicts: the right operand wins
Merge(a, b) ==
    [k \in DOMAIN a \cup DOMAIN b |-> IF k \in DOMAIN b THEN b[k] ELSE a[k]]

\* A None-filtered dict which only contains keys which have a value.
_filtered_dict(d) ==
    [k \in {q \in DOMAIN d : Truthy(d[q])} |-> d[k]]

(***************************************************************************)
(* os.path.expandvars, pathlib.Path and Path.expanduser on character       *)
(* sequences.                                                              *)
(***************************************************************************)
WordChars == {"A", "B"}

\* end of the maximal run of \w characters of s starting at position j
RECURSIVE WordEnd(_, _)
WordEnd(s, j) ==
    IF j <= Len(s) /\ s[j] \in WordChars THEN WordEnd(s, j + 1) ELSE j

\* first position >= i where the pattern \$(\w+) matches, 0 if none
RECURSIVE SearchRef(_, _)
SearchRef(s, i) ==
    IF i >= Len(s) THEN 0
    ELSE IF s[i] = "$" /\ s[i + 1] \in WordChars THEN i
    ELSE SearchRef(s, i + 1)

\* the loop of posixpath.expandvars: one left-to-right pass; an expanded
\* value is not scanned again, an unset variable is left as written
RECURSIVE ExpandFrom(_, _, _)
ExpandFrom(path, i, env) ==
    LET k == SearchRef(path, i) IN
    IF k = 0 THEN path
    ELSE LET j == WordEnd(path, k + 1)
             name == SubSeq(path, k + 1, j - 1)
         IN IF name \in DOMAIN env
            THEN LET head == SubSeq(path, 1, k - 1) \o env[name]
                 IN ExpandFrom(head \o SubSeq(path, j, Len(path)),
                               Len(head) + 1, env)
            ELSE ExpandFrom(path, j, env)

expandvars(path, env) == ExpandFrom(path, 1, env)

\* number of leading "/" of s
RECURSIVE LeadingSlashes(_)
LeadingSlashes(s) ==
    IF s /= <<>> /\ Head(s) = "/" THEN 1 + LeadingSlashes(Tail(s)) ELSE 0

\* s.split("/")
RECURSIVE SplitSlash(_, _)
SplitSlash(s, cur) ==
    IF s = <<>> THEN <<cur>>
    ELSE IF Head(s) = "/" THEN <<cur>> \o SplitSlash(Tail(s), <<>>)
    ELSE SplitSlash(Tail(s), Append(cur, Head(s)))

\* the root pathlib parses: "//" is kept, any other run of "/" is "/"
PathRoot(s) ==
    LET n == LeadingSlashes(s) IN
    IF n = 0 THEN <<>> ELSE IF n = 2 THEN <<"/", "/">> ELSE <<"/">>

\* the parts pathlib parses: empty and "." components are dropped
PathParts(s) ==
    SelectSeq(SplitSlash(s, <<>>), LAMBDA c : c /= <<>> /\ c /= <<".">>)

RECURSIVE JoinSlash(_)
JoinSlash(parts) ==
    IF parts = <<>> THEN <<>>
    ELSE IF Len(parts) = 1 THEN parts[1]
    ELSE parts[1] \o <<"/">> \o JoinSlash(Tail(parts))

\* str() of the path with this root and these parts
PathStr(root, parts) ==
    IF root = <<>> /\ parts = <<>> THEN <<".">> ELSE root \o JoinSlash(parts)

\* str(Path(s))
PathOf(s) == PathStr(PathRoot(s), PathParts(s))

\* raised by Path.expanduser when the home directory cannot be determined
RuntimeError == <<"RuntimeError">>

\* the password database: user A exists, no other user does
Pwd == [n \in {<<"A">>} |-> <<"/", "home", "/", "A">>]

\* s.rstrip("/")
RECURSIVE RStripSlash(_)
RStripSlash(s) ==
    IF s /= <<>> /\ s[Len(s)] = "/" THEN RStripSlash(SubSeq(s, 1, Len(s) - 1))
    ELSE s

\* os.path.expanduser on one path component that starts with "~": "~" is
\* $HOME, "~name" the home of user name, and the component comes back as
\* written when there is no such user
UserHome(part, h) ==
    LET name == Tail(part)
        userhome == IF name = <<>> THEN h ELSE Pwd[name]
    IN IF name /= <<>> /\ name \notin DOMAIN Pwd THEN part
       ELSE IF RStripSlash(userhome) = <<>> THEN <<"/">>
       ELSE RStripSlash(userhome)

\* Path.expanduser on the path whose str() is p
expanduser(p, h) ==
    LET parts == PathParts(p) IN
    IF PathRoot(p) = <<>> /\ parts /= <<>> /\ parts[1][1] = "~"
    THEN LET homedir == UserHome(parts[1], h) IN
         IF homedir[1] = "~" THEN RuntimeError
         ELSE PathStr(PathRoot(homedir), PathParts(homedir) \o Tail(parts))
    ELSE p

\* expanduser applied before expandvars (the two calls swapped)
_real_path_swapped(p, env, h) ==
    LET u == expanduser(PathOf(p), h) IN
    IF u = RuntimeError THEN u ELSE PathOf(expandvars(u, env))

\* Path(os.path.expandvars(p)).expanduser()
_real_path(p, env, h) == expanduser(PathOf(expandvars(p, env)), h)

(***************************************************************************)
(* add_annotation_if_missing.                                              *)
(***************************************************************************)
\* the annotation list after task.add_annotation(text): taskwarrior appends
Annotate(annotations, text) == Append(annotations, [description |-> text])

\* only the newest annotation is compared
add_annotation_if_missing_last(annotations, annotation_content) ==
    IF annotations /= <<>>
       /\ annotations[Len(annotations)].description = annotation_content
    THEN annotations
    ELSE Annotate(annotations, annotation_content)

\* the task's annotations after add_annotation_if_missing(task, content)
add_annotation_if_missing(annotations, annotation_content) ==
    IF \E i \in 1..Len(annotations) :
           annotations[i].description = annotation_content
    THEN annotations
    ELSE Annotate(annotations, annotation_content)

(***************************************************************************)
(* Configuration: the tiers, their readers and the typed record.           *)
(***************************************************************************)
SettingKeys == {"task.rc", "task.data", "notes.dir", "notes.ext",
                "notes.annot", "notes.editor", "notes.quiet"}
Keys == SettingKeys \cup {"task.id"}
PathKeys == {"task.rc", "task.data", "notes.dir"}

\* os.getenv(name): None when the variable is not set
getenv(env, name) == env[name]

\* x or y
Or(x, y) == IF Truthy(x) THEN x ELSE y

\* DEFAULTS_DICT, built when the module is imported
DEFAULTS_DICT(env) ==
    [k \in SettingKeys |->
        CASE k = "task.rc" -> Str(<<"~", "/", ".config", "/", "task", "/", "taskrc">>)
          [] k = "task.data" -> Str(<<"~", "/", ".task">>)
          [] k = "notes.dir" -> Str(<<"~", "/", ".task", "/", "notes">>)
          [] k = "notes.ext" -> Str(<<"md">>)
          [] k = "notes.annot" -> Str(<<"Note">>)
          [] k = "notes.editor" ->
                Or(getenv(env, "EDITOR"), Or(getenv(env, "VISUAL"), Str(<<"nano">>)))
          [] k = "notes.quiet" -> Str(<<"False">>)]

\* the environment variable parse_env reads for a key
EnvName(k) ==
    CASE k = "task.rc" -> "TASKRC"
      [] k = "task.data" -> "TASKDATA"
      [] k = "notes.dir" -> "TOPEN_NOTES_DIR"
      [] k = "notes.ext" -> "TOPEN_NOTES_EXT"
      [] k = "notes.annot" -> "TOPEN_NOTES_ANNOT"
      [] k = "notes.editor" -> "TOPEN_NOTES_EDITOR"
      [] k = "notes.quiet" -> "TOPEN_NOTES_QUIET"
EnvNames == {EnvName(k) : k \in SettingKeys} \cup {"EDITOR", "VISUAL"}

parse_env(env) ==
    _filtered_dict([k \in SettingKeys |-> getenv(env, EnvName(k))])

\* parser.parse_args() exits with status 2 when the positional id is not given
ArgparseExits(p) == p["task.id"] = None

parse_cli(p) == _filtered_dict([k \in Keys |-> p[k]])

\* the option of the taskrc file parse_conf reads for a key
ConfOption(k) == IF k = "task.data" THEN "data.location" ELSE k
ConfKeys == SettingKeys \ {"task.rc"}

\* the ConfigParser after read_string: DEFAULTS_DICT overridden by the file
ConfigParser(env, content) == Merge(DEFAULTS_DICT(env), content)

\* c.get("DEFAULT", option) raises NoOptionError for an option that is
\* neither in the file nor in the defaults
NoOptionError(env, content) ==
    \E k \in ConfKeys : ConfOption(k) \notin DOMAIN ConfigParser(env, content)

\* parse_conf that also hands back the file's task.rc
parse_conf_with_rc(env, content) ==
    LET c == ConfigParser(env, content) IN
    _filtered_dict([k \in SettingKeys |-> c[ConfOption(k)]])

parse_conf(env, content) ==
    LET c == ConfigParser(env, content) IN
    _filtered_dict([k \in ConfKeys |-> c[ConfOption(k)]])

\* the overrides merged under the config file instead of over it
MergeOpts_conf_wins(env, content, override) ==
    Merge(override, parse_conf_with_rc(env, content))

\* opts: dict = parse_conf(conf_file) | opts_override
MergeOpts(env, content, override) == Merge(parse_conf(env, content), override)

\* the arguments of TConf(...) in the order they are evaluated
ConfFields == <<"task.rc", "task.data", "task.id", "notes.dir", "notes.ext",
                "notes.annot", "notes.editor", "notes.quiet">>

\* what evaluating one argument raises: KeyError for a missing key,
\* RuntimeError from _real_path; "" when it evaluates
FieldError(d, k, env, h) ==
    IF k \notin DOMAIN d THEN "KeyError: " \o k
    ELSE IF k \in PathKeys /\ _real_path(d[k].s, env, h) = RuntimeError
    THEN "RuntimeError"
    ELSE ""

\* the exception conf_from_dict raises, "" when it returns
RECURSIVE FirstError(_, _, _, _)
FirstError(d, i, env, h) ==
    IF i > Len(ConfFields) THEN ""
    ELSE IF FieldError(d, ConfFields[i], env, h) /= ""
    THEN FieldError(d, ConfFields[i], env, h)
    ELSE FirstError(d, i + 1, env, h)

conf_from_dict_error(d, env, h) == FirstError(d, 1, env, h)

conf_from_dict(d, env, h) ==
    [task_rc |-> PosixPath(_real_path(d["task.rc"].s, env, h)),
     task_data |-> PosixPath(_real_path(d["task.data"].s, env, h)),
     task_id |-> d["task.id"],
     notes_dir |-> PosixPath(_real_path(d["notes.dir"].s, env, h)),
     notes_ext |-> d["notes.ext"],
     notes_annot |-> d["notes.annot"],
     notes_editor |-> d["notes.editor"],
     notes_quiet |-> d["notes.quiet"]]

(***************************************************************************)
(* The collaborators.                                                      *)
(***************************************************************************)
\* tw.tasks.get(id=id): the tasks whose id is id
ById(st, id) == {u \in DOMAIN st : st[u].id = id}
\* tw.tasks.get(uuid=id)
ByUuid(st, id) == {u \in DOMAIN st : u = id}

\* a lookup that falls back to whatever task the store holds
get_task_any(st, id) ==
    IF ById(st, id) /= {} THEN ById(st, id)
    ELSE IF ByUuid(st, id) /= {} THEN ByUuid(st, id)
    ELSE DOMAIN st

\* the tasks get_task may return; none when Task.DoesNotExist leaves it
get_task(st, id) ==
    IF ById(st, id) /= {} THEN ById(st, id) ELSE ByUuid(st, id)

\* Path(notes_dir).joinpath(f"{uuid}.{notes_ext}")
get_notes_file(uuid, notes_dir, notes_ext) ==
    PathOf(notes_dir \o <<"/">> \o uuid \o <<".">> \o notes_ext)

\* proc.wait() returns at once
WaitReturns_nowait(p) == p.state /= "none"

\* proc.wait() returns when the editor process has exited
WaitReturns(p) == p.state = "exited"

\* whisper(text): print unless IS_QUIET
whisper(out, quiet, text) == IF quiet THEN out ELSE Append(out, text)

(***************************************************************************)
(* Variables a specification does not use stay at these values.            *)
(***************************************************************************)
NoProc == [state |-> "none", returncode |-> -1]

MainIdle ==
    /\ pc = "idle" /\ argv = <<>> /\ environ = <<>> /\ fs = <<>>
    /\ opened = <<>>
    /\ opts_override = <<>> /\ conf_file = <<>> /\ opts = <<>> /\ cfg = <<>>
    /\ IS_QUIET = FALSE /\ task = <<>> /\ store = <<>> /\ store0 = <<>>
    /\ fname = <<>> /\ proc = NoProc /\ touched = {} /\ stdout = <<>>
    /\ stderr = <<>> /\ exit_status = -1 /\ hist = <<>>

PathIdle == ppc = "idle" /\ px = <<>> /\ pr1 = <<>> /\ pr2 = <<>>

AnnotIdle ==
    acalls = <<>> /\ annots0 = <<>> /\ annots = <<>> /\ aprev = <<>>
    /\ atext = <<>>

(***************************************************************************)
(* Spec: one run of main().                                                *)
(*                                                                         *)
(* The inputs of a run: one setting key, for which each tier may or may    *)
(* not give a value, the positional id, the files on disk and the          *)
(* annotations the task already has.                                       *)
(***************************************************************************)
\* an option not written in the config file
Absent == [type |-> "absent"]

\* the value a tier gives for a key when it gives one
TierValue(tier, k) ==
    IF k \in PathKeys
    THEN CASE tier = "cli" -> Str(<<"/", "cli">>)
           [] tier = "env" -> Str(<<"$", "A", "/", "env">>)
           [] tier = "conf" -> Str(<<"~", "/", "conf">>)
    ELSE Str(<<tier>>)

CliValues(k) ==
    IF k = "notes.quiet" THEN {Bool(FALSE), Bool(TRUE)}
    ELSE {None, Str(<<>>), TierValue("cli", k)}

EnvValues(k) ==
    IF k = "notes.quiet"
    THEN {None, Str(<<>>), Str(<<"True">>), Str(<<"true">>), Str(<<"False">>)}
    ELSE {None, Str(<<>>), TierValue("env", k)}

ConfValues(k) ==
    IF k = "notes.quiet"
    THEN {Absent, Str(<<>>), Str(<<"True">>), Str(<<"False">>)}
    ELSE {Absent, None, Str(<<>>), TierValue("conf", k)}

EditorValues(k, name) ==
    IF k = "notes.editor" THEN {None, Str(<<name>>)} ELSE {None}

IdValues == {None, Str(<<>>), Str(<<"1">>), Str(<<"7">>), Str(<<"u1">>)}

MainShellEnv == [n \in {<<"A">>} |-> <<"/", "srv">>]
MainHome == <<"/", "home">>

\* the config files a run may look for
RcDefault == <<"/", "home", "/", ".config", "/", "task", "/", "taskrc">>
RcCli == <<"/", "cli">>
RcEnv == <<"/", "srv", "/", "env">>
RcConf == <<"/", "home", "/", "conf">>
RcFiles == {RcDefault, RcCli, RcEnv, RcConf}

\* the options written in the config file
ConfContent(k, cf, dl) ==
    LET written == (IF cf /= Absent THEN {ConfOption(k)} ELSE {})
                   \cup (IF dl THEN {"data.location"} ELSE {})
                   \cup {"verbose"}
    IN [o \in written |->
           IF o = ConfOption(k) /\ cf /= Absent THEN cf
           ELSE IF o = "data.location" THEN Str(<<"~", "/", "data">>)
           ELSE Str(<<"on">>)]

InitialAnnotations ==
    {<<>>, <<[description |-> <<"Note">>]>>, <<[description |-> <<"other">>]>>}

Init ==
    /\ \E k \in SettingKeys :
       \E cli \in CliValues(k), env \in EnvValues(k), cf \in ConfValues(k),
          dl \in (IF k = "task.data" THEN {FALSE} ELSE BOOLEAN),
          id \in IdValues,
          ed \in EditorValues(k, "vi"), vis \in EditorValues(k, "emacs"),
          missing \in {{}, {RcDefault}, {RcCli}} :
          /\ argv = [q \in Keys |->
                        IF q = k THEN cli
                        ELSE IF q = "task.id" THEN id
                        ELSE IF q = "notes.quiet" THEN Bool(FALSE)
                        ELSE None]
          /\ environ = [n \in EnvNames |->
                           IF n = EnvName(k) THEN env
                           ELSE IF n = "EDITOR" THEN ed
                           ELSE IF n = "VISUAL" THEN vis
                           ELSE None]
          /\ fs = [p \in RcFiles \ missing |-> ConfContent(k, cf, dl)]
    /\ \E a0 \in InitialAnnotations :
          store = [u \in {<<"u1">>} |-> [id |-> <<"1">>, annotations |-> a0]]
    /\ store0 = store
    /\ shellenv = MainShellEnv
    /\ home = MainHome
    /\ pc = "start"
    /\ opened = <<>>
    /\ opts_override = <<>> /\ conf_file = <<>> /\ opts = <<>> /\ cfg = <<>>
    /\ IS_QUIET = FALSE /\ task = <<>> /\ fname = <<>>
    /\ proc = NoProc /\ touched = {} /\ stdout = <<>> /\ stderr = <<>>
    /\ exit_status = -1 /\ hist = <<>>
    /\ PathIdle
    /\ AnnotIdle

\* an exception nobody catches: the traceback goes to stderr, status 1
Raise(exc) ==
    /\ pc' = "exit"
    /\ exit_status' = 1
    /\ stderr' = Append(stderr, "Traceback: " \o exc)

\* {"task.rc": DEFAULTS_DICT["task.rc"]} | parse_env() | parse_cli()
OptsOverride(env, p) ==
    Merge(Merge([k \in {"task.rc"} |-> DEFAULTS_DICT(env)[k]], parse_env(env)),
          parse_cli(p))

\* lines 53-54: the overrides and the path of the config file
ParseOverrides ==
    /\ pc = "start"
    /\ IF ArgparseExits(argv)
       THEN /\ pc' = "exit"
            /\ exit_status' = 2
            /\ stderr' = Append(stderr, "usage: the following arguments are required: id")
            /\ UNCHANGED <<opts_override, conf_file>>
       ELSE LET ov == OptsOverride(environ, argv)
                cf == _real_path(ov["task.rc"].s, shellenv, home)
            IN IF cf = RuntimeError
               THEN Raise("RuntimeError") /\ UNCHANGED <<opts_override, conf_file>>
               ELSE /\ opts_override' = ov
                    /\ conf_file' = cf
                    /\ pc' = "parse_conf"
                    /\ UNCHANGED <<stderr, exit_status>>
    /\ UNCHANGED <<argv, environ, shellenv, home, fs, opened, opts, cfg, IS_QUIET,
                   task, store, store0, fname, proc, touched, stdout, hist,
                   pathvars, annotvars>>

\* line 55: read the config file and merge the overrides over it
ReadConf ==
    /\ pc = "parse_conf"
    /\ LET file == expanduser(conf_file, home) IN
       /\ opened' = Append(opened, file)
       /\ IF file \notin DOMAIN fs
          THEN Raise("FileNotFoundError") /\ UNCHANGED <<opts, hist>>
          ELSE IF NoOptionError(environ, fs[file])
          THEN Raise("configparser.NoOptionError") /\ UNCHANGED <<opts, hist>>
          ELSE /\ opts' = MergeOpts(environ, fs[file], opts_override)
               /\ hist' = Append(hist, "parse_conf")
               /\ pc' = "conf_from_dict"
               /\ UNCHANGED <<stderr, exit_status>>
    /\ UNCHANGED <<argv, environ, shellenv, home, fs, opts_override, conf_file,
                   cfg, IS_QUIET, task, store, store0, fname, proc, touched,
                   stdout, pathvars, annotvars>>

UsageMessage == "Please provide task ID as argument."

\* lines 56-62: the typed configuration, the usage message, the quiet gate
BuildConf ==
    /\ pc = "conf_from_dict"
    /\ IF conf_from_dict_error(opts, shellenv, home) /= ""
       THEN /\ Raise(conf_from_dict_error(opts, shellenv, home))
            /\ UNCHANGED <<cfg, IS_QUIET, hist>>
       ELSE /\ cfg' = conf_from_dict(opts, shellenv, home)
            /\ stderr' = IF ~Truthy(cfg'.task_id)
                         THEN Append(stderr, UsageMessage) ELSE stderr
            /\ IS_QUIET' = IF Truthy(cfg'.notes_quiet) THEN TRUE ELSE IS_QUIET
            /\ hist' = Append(hist, "conf_from_dict")
            /\ pc' = "get_task"
            /\ UNCHANGED exit_status
    /\ UNCHANGED <<argv, environ, shellenv, home, fs, opened, opts_override,
                   conf_file, opts, task, store, store0, fname, proc, touched,
                   stdout, pathvars, annotvars>>

\* lines 64-69: look the task up and derive the note file
GetTask ==
    /\ pc = "get_task"
    /\ LET found == get_task(store, cfg.task_id.s) IN
       IF found = {}
       THEN Raise("tasklib.Task.DoesNotExist") /\ UNCHANGED <<task, fname, hist>>
       ELSE IF Cardinality(found) > 1
       THEN Raise("ValueError") /\ UNCHANGED <<task, fname, hist>>
       ELSE \E uuid \in found :
            /\ task' = uuid
            /\ hist' = Append(hist, "get_task")
            /\ IF uuid = <<>>
               THEN /\ stderr' = Append(stderr, "Could not find task for ID")
                    /\ exit_status' = 1
                    /\ pc' = "exit"
                    /\ UNCHANGED fname
               ELSE /\ fname' = get_notes_file(uuid, cfg.notes_dir.s, cfg.notes_ext.s)
                    /\ pc' = "open_editor"
                    /\ UNCHANGED <<stderr, exit_status>>
    /\ UNCHANGED <<argv, environ, shellenv, home, fs, opened, opts_override,
                   conf_file, opts, cfg, IS_QUIET, store, store0, proc, touched,
                   stdout, pathvars, annotvars>>

\* lines 97-98: announce the file and start the editor
OpenEditor ==
    /\ pc = "open_editor"
    /\ stdout' = whisper(stdout, IS_QUIET, "Editing note")
    /\ proc' = [state |-> "running", returncode |-> -1]
    /\ hist' = Append(hist, "Popen")
    /\ pc' = "wait"
    /\ UNCHANGED <<argv, environ, shellenv, home, fs, opened, opts_override,
                   conf_file, opts, cfg, IS_QUIET, task, store, store0, fname,
                   touched, stderr, exit_status, pathvars, annotvars>>

\* 127: the shell did not find the command; otherwise the editor ran on
\* the file
ReturnCodes == {0, 1, 127}

\* the editor process ends
EditorExits ==
    /\ proc.state = "running"
    /\ \E rc \in ReturnCodes :
          /\ proc' = [state |-> "exited", returncode |-> rc]
          /\ touched' = IF rc = 127 THEN touched ELSE touched \cup {fname}
    /\ UNCHANGED <<pc, argv, environ, shellenv, home, fs, opened, opts_override,
                   conf_file, opts, cfg, IS_QUIET, task, store, store0, fname,
                   stdout, stderr, exit_status, hist, pathvars, annotvars>>

\* line 99: proc.wait() returns; its value is dropped
Wait ==
    /\ pc = "wait"
    /\ WaitReturns(proc)
    /\ hist' = Append(hist, "wait")
    /\ pc' = "add_annotation"
    /\ UNCHANGED <<argv, environ, shellenv, home, fs, opened, opts_override,
                   conf_file, opts, cfg, IS_QUIET, task, store, store0, fname,
                   proc, touched, stdout, stderr, exit_status, pathvars,
                   annotvars>>

\* line 73: mark the task, then main() returns
AddAnnotation ==
    /\ pc = "add_annotation"
    /\ LET old == store[task].annotations
           new == add_annotation_if_missing(old, cfg.notes_annot.s)
       IN /\ store' = [store EXCEPT ![task].annotations = new]
          /\ stdout' = IF new /= old
                       THEN whisper(stdout, IS_QUIET, "Added annotation")
                       ELSE stdout
    /\ hist' = Append(hist, "add_annotation_if_missing")
    /\ pc' = "done"
    /\ exit_status' = 0
    /\ UNCHANGED <<argv, environ, shellenv, home, fs, opened, opts_override,
                   conf_file, opts, cfg, IS_QUIET, task, store0, fname, proc,
                   touched, stderr, pathvars, annotvars>>

Next ==
    \/ ParseOverrides
    \/ ReadConf
    \/ BuildConf
    \/ GetTask
    \/ OpenEditor
    \/ EditorExits
    \/ Wait
    \/ AddAnnotation

Spec == Init /\ [][Next]_vars

(***************************************************************************)
(* SpecPath: _real_path applied once and then again to its own result.     *)
(***************************************************************************)
Chars == {"$", "A", "B", "/", "~"}

RECURSIVE StringsUpTo(_)
StringsUpTo(n) ==
    IF n = 0 THEN {<<>>}
    ELSE LET shorter == StringsUpTo(n - 1) IN
         shorter \cup {Append(s, c) : s \in {t \in shorter : Len(t) = n - 1},
                                        c \in Chars}

\* values an environment variable may hold; a variable may also be unset
EnvVals == {<<>>, <<"/">>, <<"A">>, <<"~">>, <<"$", "B">>}
VarNames == {<<"A">>, <<"B">>}
Environments ==
    UNION {[d -> EnvVals] : d \in SUBSET VarNames}
HomeVals == {<<"/", "home">>, <<"/">>, <<"$", "B">>}

PathInit ==
    /\ ppc = "start"
    /\ px \in StringsUpTo(MaxLen)
    /\ shellenv \in Environments
    /\ home \in HomeVals
    /\ pr1 = <<>> /\ pr2 = <<>>
    /\ MainIdle
    /\ AnnotIdle

\* r = _real_path(x)
NormalizeOnce ==
    /\ ppc = "start"
    /\ pr1' = _real_path(px, shellenv, home)
    /\ ppc' = "once"
    /\ UNCHANGED <<px, pr2, mainvars, annotvars>>

\* _real_path(r), when the first call returned
NormalizeTwice ==
    /\ ppc = "once"
    /\ pr1 /= RuntimeError
    /\ pr2' = _real_path(pr1, shellenv, home)
    /\ ppc' = "twice"
    /\ UNCHANGED <<px, pr1, mainvars, annotvars>>

PathNext == NormalizeOnce \/ NormalizeTwice

SpecPath == PathInit /\ [][PathNext]_vars

\* s still holds a $name whose variable is set
HasSetRef(s, env) ==
    \E k \in 1..Len(s) :
        /\ s[k] = "$"
        /\ WordEnd(s, k + 1) > k + 1
        /\ SubSeq(s, k + 1, WordEnd(s, k + 1) - 1) \in DOMAIN env

\* C10 as stated: normalizing a second time changes nothing, for every
\* string and every environment.
C10_Idempotent == ppc = "twice" => pr2 = pr1

\* C10 amended: a second normalization changes nothing whenever the first
\* result holds no reference to a variable that is set.
C10_IdempotentOnceExpanded ==
    (ppc = "twice" /\ ~HasSetRef(pr1, shellenv)) => pr2 = pr1

\* "~$A" with A set to the empty string was normalized twice: the variable
\* and then the "~" were expanded, and the second call changed nothing
C10_Witness ==
    /\ ppc = "twice"
    /\ px = <<"~", "$", "A">>
    /\ <<"A">> \in DOMAIN shellenv /\ shellenv[<<"A">>] = <<>>
    /\ home = <<"/", "home">>
    /\ pr1 = <<"/", "home">>
    /\ ~HasSetRef(pr1, shellenv)
    /\ pr2 = pr1

(***************************************************************************)
(* SpecAnnot: add_annotation_if_missing called again and again on a task.  *)
(***************************************************************************)
Texts == {<<"Note">>, <<"other">>, <<"see file">>}

RECURSIVE AnnotationLists(_)
AnnotationLists(n) ==
    IF n = 0 THEN {<<>>}
    ELSE LET shorter == AnnotationLists(n - 1) IN
         shorter \cup {Append(l, [description |-> t]) :
                          l \in {m \in shorter : Len(m) = n - 1}, t \in Texts}

AnnotInit ==
    /\ annots0 \in AnnotationLists(MaxAnnots)
    /\ annots = annots0
    /\ aprev = annots0
    /\ acalls = <<>>
    /\ atext = <<>>
    /\ shellenv = <<>> /\ home = <<>>
    /\ MainIdle
    /\ PathIdle

\* add_annotation_if_missing(task, t)
CallAdd ==
    /\ Len(acalls) < MaxCalls
    /\ \E t \in Texts :
          /\ aprev' = annots
          /\ annots' = add_annotation_if_missing(annots, t)
          /\ atext' = t
          /\ acalls' = Append(acalls, t)
    /\ UNCHANGED <<annots0, mainvars, pathvars>>

AnnotNext == CallAdd

SpecAnnot == AnnotInit /\ [][AnnotNext]_vars

\* how many annotations of l have the description t
Count(l, t) == Cardinality({i \in 1..Len(l) : l[i].description = t})
Called(t) == \E i \in 1..Len(acalls) : acalls[i] = t
IsPrefix(a, b) == Len(a) <= Len(b) /\ SubSeq(b, 1, Len(a)) = a

\* C5: after any calls, a text that was called with and was not on the task
\* is on it exactly once; a call with a text already on the task leaves the
\* list as it was; the annotations the task had stay where they were and no
\* text that was not called with is added.
C5_Idempotent ==
    /\ \A t \in Texts :
          Count(annots, t) = IF Called(t) /\ Count(annots0, t) = 0 THEN 1
                             ELSE Count(annots0, t)
    /\ (acalls /= <<>> /\ Count(aprev, atext) > 0) => annots = aprev
    /\ IsPrefix(annots0, annots)

\* the same text was called with twice on a task that did not have it and
\* had another annotation
C5_Witness ==
    /\ Len(acalls) >= 2
    /\ acalls[1] = <<"Note">> /\ acalls[2] = <<"Note">>
    /\ annots0 = <<[description |-> <<"other">>]>>
    /\ Count(annots, <<"Note">>) = 1

(***************************************************************************)
(* The claims about a run of main().                                       *)
(***************************************************************************)
Raised(exc) == \E i \in 1..Len(stderr) : stderr[i] = "Traceback: " \o exc
Written(msg) == \E i \in 1..Len(stderr) : stderr[i] = msg
Reached(step) == \E i \in 1..Len(hist) : hist[i] = step
Terminal == pc \in {"exit", "done"}

\* what the config file at the resolved path says for a key; None when it
\* does not say, and always for the location of the config file itself
ConfTier(k) ==
    IF k /= "task.rc" /\ conf_file \in DOMAIN fs
       /\ ConfOption(k) \in DOMAIN fs[conf_file]
    THEN fs[conf_file][ConfOption(k)]
    ELSE None

\* command line, else environment, else config file, else default
Expected(k) ==
    Or(argv[k], Or(getenv(environ, EnvName(k)),
                   Or(ConfTier(k), DEFAULTS_DICT(environ)[k])))

\* C1: a run whose config file is there reaches conf_from_dict, and every
\* setting key then has the value of the highest tier that gives one.
C1_Precedence ==
    /\ ~Raised("configparser.NoOptionError")
    /\ Reached("parse_conf") =>
          \A k \in SettingKeys : k \in DOMAIN opts /\ opts[k] = Expected(k)

\* the config file main() must open
RcExpected ==
    _real_path(Or(argv["task.rc"],
                  Or(getenv(environ, "TASKRC"),
                     DEFAULTS_DICT(environ)["task.rc"])).s,
               shellenv, home)

\* C2: the config file opened is the one --task-rc names, else TASKRC, else
\* the default, and so is the task_rc field, whatever the file itself says.
C2_Bootstrap ==
    /\ conf_file /= <<>> => conf_file = RcExpected
    /\ \A i \in 1..Len(opened) : opened[i] = RcExpected
    /\ Reached("conf_from_dict") => cfg.task_rc = PosixPath(RcExpected)

\* a config file that names another config file was read, and the run went
\* on with the one it had opened
C2_Witness ==
    /\ Reached("conf_from_dict")
    /\ "task.rc" \in DOMAIN fs[conf_file]
    /\ fs[conf_file]["task.rc"] = Str(<<"~", "/", "conf">>)
    /\ opened = <<RcExpected>>
    /\ cfg.task_rc /= PosixPath(RcConf)

\* C3: the quiet gate is on for "True", "true" and --quiet, and off for
\* "False".
C3_QuietCoercion ==
    Reached("conf_from_dict") =>
        /\ opts["notes.quiet"] \in {Str(<<"True">>), Str(<<"true">>), Bool(TRUE)}
              => IS_QUIET
        /\ opts["notes.quiet"] = Str(<<"False">>) => ~IS_QUIET

\* neither lookup finds the task the run asks for
NotFound ==
    ById(store0, cfg.task_id.s) = {} /\ ByUuid(store0, cfg.task_id.s) = {}

\* C4: when neither lookup finds the task, the run ends with an error on
\* stderr and a non-zero status, no editor was started, no file touched and
\* no task changed.
C4_TaskNotFound ==
    (Reached("conf_from_dict") /\ NotFound) =>
        /\ proc = NoProc
        /\ touched = {}
        /\ store = store0
        /\ pc /= "get_task" =>
              pc = "exit" /\ exit_status /= 0 /\ stderr /= <<>>

\* a run asked for task 7, which the store does not hold, and ended
C4_Witness ==
    /\ pc = "exit"
    /\ Reached("conf_from_dict")
    /\ cfg.task_id = Str(<<"7">>)
    /\ NotFound
    /\ Raised("tasklib.Task.DoesNotExist")

\* C6: every setting key is in the merged map once the config file is read,
\* and conf_from_dict raises KeyError for task.id only, and does whenever
\* task.id is missing.
C6_OnlyTaskIdMissing ==
    /\ Reached("parse_conf") => SettingKeys \subseteq DOMAIN opts
    /\ \A k \in SettingKeys : ~Raised("KeyError: " \o k)
    /\ (Reached("parse_conf") /\ pc /= "conf_from_dict"
        /\ "task.id" \notin DOMAIN opts) => Raised("KeyError: task.id")

\* C7: a run without a non-empty id, in which nothing else fails, writes the
\* usage message and goes on to the task lookup.
C7_UsageThenLookup ==
    (/\ Terminal
     /\ ~Truthy(argv["task.id"])
     /\ ~Raised("FileNotFoundError")
     /\ ~Raised("configparser.NoOptionError")
     /\ \A k \in SettingKeys : ~Raised("KeyError: " \o k))
    => /\ Written(UsageMessage)
       /\ Reached("get_task") \/ Raised("tasklib.Task.DoesNotExist")

\* C8: once the editor has exited with a non-zero status, the annotation
\* step is not performed and the run does not end with status 0.
C8_EditorFailureStops ==
    (proc.state = "exited" /\ proc.returncode /= 0) =>
        /\ ~Reached("add_annotation_if_missing")
        /\ store = store0
        /\ Terminal => exit_status /= 0

\* the order of the orchestration chain
Chain == <<"parse_conf", "conf_from_dict", "get_task", "Popen", "wait",
           "add_annotation_if_missing">>

\* C9: config file, then lookup, then editor, then the editor's exit, then
\* the annotation; a missing config file ends the run before any of them;
\* main() never ends while the editor runs.
C9_Ordering ==
    /\ IsPrefix(hist, Chain)
    /\ proc.state /= "none" => Reached("get_task") /\ task \in DOMAIN store
    /\ Reached("add_annotation_if_missing") => proc.state = "exited"
    /\ store /= store0 => proc.state = "exited"
    /\ Raised("FileNotFoundError") =>
          hist = <<>> /\ proc = NoProc /\ store = store0 /\ touched = {}
    /\ Terminal => proc.state /= "running"

\* a run went through the whole chain and changed the task
C9_Witness ==
    /\ pc = "done"
    /\ hist = Chain
    /\ proc.state = "exited"
    /\ store /= store0

====
